---- MODULE Spec2Model ----
(***************************************************************************)
(* A model of the upscaling orchestration layer of image-upscaler-pro:     *)
(* RealESRGANUpscaler (src/upscaler.py) and the lazily created shared      *)
(* instance of the web application (src/app.py).                           *)
(*                                                                         *)
(* A thread of the host takes the upscaler (get_upscaler, or a direct      *)
(* construction), which provisions the binary on first use, and then       *)
(* issues one upscale call: upscale_image (array in, array out) or upscale *)
(* (file paths).  The installation directory, the shared instance and the  *)
(* files are global; every blocking operation of the code (a network       *)
(* fetch, a filesystem call, the wait on the child process) is one step.   *)
(***************************************************************************)
EXTENDS Integers, Sequences, FiniteSets, TLC

\* ------------------------------------------------------------------ bounds
NumThreads == 2
MaxScale == 9
MaxSide == 2

Threads == 1..NumThreads

\* ------------------------------------------------------- program constants
\* RealESRGANUpscaler.MODELS: the model registry.
MODELS == {"realesrgan-x4plus", "realesrnet-x4plus", "realesrgan-x4plus-anime"}

\* RealESRGANUpscaler.BINARY_URLS: the platform keys a distribution exists for.
BINARY_URLS == {"darwin_arm64", "darwin_x86_64"}

\* platform.system().lower(), platform.machine().lower() of the running host.
Platforms == {<<"darwin", "arm64">>, <<"darwin", "x86_64">>, <<"linux", "x86_64">>}

\* _get_platform_key: the key, or "raise" for RuntimeError(Unsupported platform).
GetPlatformKey(p) ==
    IF p[1] = "darwin"
    THEN (IF p[2] \in {"arm64", "aarch64"} THEN "darwin_arm64" ELSE "darwin_x86_64")
    ELSE "raise"

\* What the archive behind the download URL holds: one directory whose name
\* contains "realesrgan" with the binary in it ("nested"), the binary at the
\* top level ("flat"), or a directory without the expected binary ("nobin").
Archives == {"nested", "flat", "nobin"}

\* The scales upscale accepts (`scale not in [2, 4, 8]`).
\* (A slip: the scale check left out.)
SupportedScalesDropped == Nat
SupportedScales == {2, 4, 8}

\* The model check of upscale (`model not in self.MODELS`).
\* (A slip: the model check left out.)
ModelRegisteredDropped(m) == TRUE
ModelRegistered(m) == m \in MODELS

\* The passes of one upscale call, as the per-pass scales handed to
\* _run_upscale: 8 is a pass at 4 and a pass at 2, any other scale one pass.
\* (Slips: the two passes of 8 in the other order; two passes at 4, the 16x of
\* the comment in the code.)
PassPlanSwapped(scale) == IF scale = 8 THEN <<2, 4>> ELSE <<scale>>
PassPlanSquared(scale) == IF scale = 8 THEN <<4, 4>> ELSE <<scale>>
PassPlan(scale) == IF scale = 8 THEN <<4, 2>> ELSE <<scale>>

\* The paths the finally clause of upscale_image deletes.
\* (A slip: the output path left out of the loop.)
CleanupPathsInputOnly == {"in"}
CleanupPaths == {"in", "out"}

\* What is at a path: nothing, an empty file, a part of a file, or an image
\* of h rows and w columns.
NoFile == [k |-> "absent", h |-> 0, w |-> 0]
Empty == [k |-> "empty", h |-> 0, w |-> 0]
Partial == [k |-> "partial", h |-> 0, w |-> 0]
Image(h, w) == [k |-> "image", h |-> h, w |-> w]
IsImage(c) == c.k = "image"

\* What a call returns: nothing (it raised), an image, or the output path.
NoResult == [k |-> "none", h |-> 0, w |-> 0]
OutputPath == [k |-> "path", h |-> 0, w |-> 0]

\* The external tool, exit status 0: the output is the input, width and height
\* multiplied by the per-pass scale.
ToolOutput(c, s) == Image(c.h * s, c.w * s)

\* ------------------------------------------------------------------- state
VARIABLES
    host,      \* the workload: the threads that run and the inputs they draw
    platform,  \* <<system, machine>> of the host
    archive,   \* what the distribution archive holds
    bin,       \* binary_path: "absent", "noexec" or "exec"
    zip,       \* models_dir/realesrgan.zip exists
    xdir,      \* the extracted directory: "absent", "bin", "nobin"
    upscaler,  \* app._upscaler is not None
    pc,        \* each thread's position
    via,       \* how the thread takes the upscaler: "app" or "direct"
    req,       \* the arguments of the thread's upscale call
    files,     \* the files of the thread's call: path -> content
    made,      \* the paths the call took from NamedTemporaryFile
    child,     \* the thread's child process: "none", "running" or "hung"
    calls,     \* the invocations of the external tool the call issued
    err,       \* the exception the thread's call ended with, or "none"
    result,    \* the image the call returned, or "none"
    diag,      \* the streams captured from a failed child and the error text
    reports,   \* the fractions upscale handed to progress_callback, in 1/1000
    ui,        \* the UI request: the fractions its sink got and its response
    http       \* the HTTP request: its response

vars == <<host, platform, archive, bin, zip, xdir, upscaler, pc, via, req,
          files, made, child, calls, err, result, diag, reports, ui, http>>

install == <<bin, zip, xdir>>
call == <<req, files, made, child, calls, result, diag, reports>>
front == <<ui, http>>

Paths == {"in", "out", "tmp"}
NoFiles == [p \in Paths |-> NoFile]
NoReq == [mode |-> "none", scale |-> 0, model |-> "none", image |-> NoFile, src |-> FALSE,
          sink |-> FALSE]

\* No child has failed; no UI request and no HTTP request is in progress.
NoDiag == [stderr |-> "", stdout |-> "", msg |-> <<"", "">>]
NoResponse == [image |-> NoResult, path |-> "none", status |-> <<"none", "none">>]
NoUi == [sink |-> <<>>, wrote |-> "none", resp |-> NoResponse]
NoHttp == [status |-> 0, cause |-> "none"]

\* The strings of the UI: a scale factor is the scale followed by "x"; a model
\* choice and an output format are looked up with a default.
\* A string is written here as its digits and what follows them.
Factor(k) == <<k, "x">>
Replaced(f) == IF f[2] = "x" THEN <<f[1], "">> ELSE f
IsInt(f) == f[2] = ""
ParseScale(f) == Replaced(f)[1]
model_map == [c \in {"Best Quality", "Faster", "Anime/Illustration"} |->
                CASE c = "Best Quality" -> "realesrgan-x4plus"
                  [] c = "Faster" -> "realesrnet-x4plus"
                  [] c = "Anime/Illustration" -> "realesrgan-x4plus-anime"]
ModelName(c) == IF c \in DOMAIN model_map THEN model_map[c] ELSE "realesrgan-x4plus"
format_map == [f \in {"PNG", "JPG", "WebP"} |->
                CASE f = "PNG" -> "png" [] f = "JPG" -> "jpg" [] f = "WebP" -> "webp"]
\* The file save_image_to_file writes is upscaled_image.<ext> in the
\* temporary directory, whoever calls it; it is named here by <ext>.
SavePath(f) == IF f \in DOMAIN format_map THEN format_map[f] ELSE "png"

\* What the upscaler of the HTTP backend does with a decoded image: it
\* returns an output path, or no path and a message, or raises an error of
\* one of the kinds of the orchestrator.
BackendErrors == {"InvalidRequest", "ProvisioningError", "InvocationFailed",
                  "InvocationTimedOut"}
BackendOutcomes == {"path", "nopath"} \cup BackendErrors

\* The state every behaviour starts from, but for the workload.
InitState ==
    /\ platform \in Platforms
    /\ archive \in Archives
    /\ bin \in {"absent", "exec"}
    /\ zip = FALSE
    /\ xdir = "absent"
    /\ upscaler = FALSE
    /\ pc = [t \in Threads |-> "idle"]
    /\ via = [t \in Threads |-> "none"]
    /\ req = [t \in Threads |-> NoReq]
    /\ files = [t \in Threads |-> NoFiles]
    /\ made = [t \in Threads |-> {}]
    /\ child = [t \in Threads |-> "none"]
    /\ calls = [t \in Threads |-> <<>>]
    /\ err = [t \in Threads |-> "none"]
    /\ result = [t \in Threads |-> NoResult]
    /\ diag = [t \in Threads |-> NoDiag]
    /\ reports = [t \in Threads |-> <<>>]
    /\ ui = [t \in Threads |-> NoUi]
    /\ http = [t \in Threads |-> NoHttp]

\* One thread, every input.
Init ==
    /\ InitState
    /\ host = [threads |-> {1},
               scales |-> 1..MaxScale,
               models |-> MODELS \cup {"unknown-model"},
               sides |-> 1..MaxSide,
               modes |-> {"array", "file"},
               sinks |-> BOOLEAN,
               stderrs |-> {"", "CUDA error"},
               stdouts |-> {"", "0.00%"},
               inputs |-> BOOLEAN,
               factors |-> {Factor(k) : k \in 1..MaxScale} \cup {<<0, "auto">>},
               choices |-> DOMAIN model_map \cup {"Balanced"},
               formats |-> DOMAIN format_map \cup {"BMP"},
               uploads |-> BOOLEAN,
               backends |-> BackendOutcomes]

\* Every thread, one input of each kind.
InitConc ==
    /\ InitState
    /\ host = [threads |-> Threads,
               scales |-> {4, 8},
               models |-> {"realesrgan-x4plus"},
               sides |-> {1},
               modes |-> {"array", "file"},
               sinks |-> {TRUE},
               stderrs |-> {"CUDA error"},
               stdouts |-> {""},
               inputs |-> {TRUE},
               factors |-> {Factor(4)},
               choices |-> {"Best Quality"},
               formats |-> {"PNG"},
               uploads |-> {TRUE},
               backends |-> {"path"}]

Goto(t, l) == pc' = [pc EXCEPT ![t] = l]
Raise(t, e, l) == pc' = [pc EXCEPT ![t] = l] /\ err' = [err EXCEPT ![t] = e]

\* ------------------------------------------------------------- provisioning
\* get_upscaler (app.py), up to the call of create_upscaler.
GetUpscaler(t) ==
    /\ pc[t] = "get"
    /\ Goto(t, IF upscaler THEN "ready" ELSE "check")
    /\ UNCHANGED <<host, platform, archive, install, upscaler, via, call, err, front>>

\* A caller of the library constructs its own upscaler.
CreateUpscaler(t) ==
    /\ t \in host.threads
    /\ pc[t] = "idle"
    /\ via' = [via EXCEPT ![t] = "direct"]
    /\ Goto(t, "check")
    /\ UNCHANGED <<host, platform, archive, install, upscaler, call, err, front>>

\* `self.binary_path.exists()`.
\* (A slip: the early return left out.)
BinaryExistsNever == FALSE
BinaryExists == bin # "absent"

\* _ensure_binary_exists: the early return, the platform key and its URL.
EnsureCheck(t) ==
    /\ pc[t] = "check"
    /\ IF BinaryExists
       THEN Goto(t, "constructed") /\ UNCHANGED err
       ELSE IF GetPlatformKey(platform) \notin BINARY_URLS
            THEN Raise(t, "RuntimeError: unsupported platform", "failed")
            ELSE Goto(t, "download") /\ UNCHANGED err
    /\ UNCHANGED <<host, platform, archive, install, upscaler, via, call, front>>

\* requests.get, raise_for_status and the streamed write of the zip file.
Download(t) ==
    /\ pc[t] = "download"
    /\ \E ok \in BOOLEAN :
        IF ok
        THEN zip' = TRUE /\ Goto(t, "extract") /\ UNCHANGED err
        ELSE UNCHANGED zip /\ Raise(t, "RequestException", "failed")
    /\ UNCHANGED <<host, platform, archive, bin, xdir, upscaler, via, call, front>>

\* zipfile.ZipFile(zip_path).extractall(models_dir).  A file already at a
\* member's path is rewritten in place and keeps its mode.
Extract(t) ==
    /\ pc[t] = "extract"
    /\ IF ~zip
       THEN Raise(t, "FileNotFoundError: zip", "failed") /\ UNCHANGED <<bin, xdir>>
       ELSE /\ Goto(t, "move")
            /\ UNCHANGED err
            /\ xdir' = CASE archive = "nested" -> "bin"
                         [] archive = "nobin" -> "nobin"
                         [] OTHER -> xdir
            /\ bin' = IF archive = "flat" /\ bin = "absent" THEN "noexec" ELSE bin
    /\ UNCHANGED <<host, platform, archive, zip, upscaler, via, call, front>>

\* The search for the extracted directory and the move of its content into
\* models_dir, then rmdir.  A destination that exists is unlinked first, and
\* shutil.move is the step after it ("move2"): it raises when the source is
\* gone by then.
Move(t) ==
    /\ pc[t] \in {"move", "move2"}
    /\ IF pc[t] = "move"
       THEN IF xdir = "bin" /\ bin # "absent"
            THEN bin' = "absent" /\ Goto(t, "move2") /\ UNCHANGED <<xdir, err>>
            ELSE /\ Goto(t, "chmod")
                 /\ bin' = IF xdir = "bin" THEN "noexec" ELSE bin
                 /\ xdir' = "absent"
                 /\ UNCHANGED err
       ELSE IF xdir = "bin"
            THEN bin' = "noexec" /\ xdir' = "absent" /\ Goto(t, "chmod") /\ UNCHANGED err
            ELSE UNCHANGED <<bin, xdir>> /\ Raise(t, "FileNotFoundError: move", "failed")
    /\ UNCHANGED <<host, platform, archive, zip, upscaler, via, call, front>>

\* `if self.binary_path.exists(): chmod(... | S_IEXEC)`.
Chmod(t) ==
    /\ pc[t] = "chmod"
    /\ bin' = IF bin # "absent" THEN "exec" ELSE bin
    /\ Goto(t, "unlinkzip")
    /\ UNCHANGED <<host, platform, archive, zip, xdir, upscaler, via, call, err, front>>

\* zip_path.unlink() and the normal end of _ensure_binary_exists.
UnlinkZip(t) ==
    /\ pc[t] = "unlinkzip"
    /\ IF zip
       THEN zip' = FALSE /\ Goto(t, "constructed") /\ UNCHANGED err
       ELSE UNCHANGED zip /\ Raise(t, "FileNotFoundError: zip", "failed")
    /\ UNCHANGED <<host, platform, archive, bin, xdir, upscaler, via, call, front>>

\* The constructor has returned; get_upscaler assigns _upscaler.
Constructed(t) ==
    /\ pc[t] = "constructed"
    /\ upscaler' = (upscaler \/ via[t] = "app")
    /\ Goto(t, "ready")
    /\ UNCHANGED <<host, platform, archive, install, via, call, err, front>>

Provision(t) ==
    \/ GetUpscaler(t)
    \/ CreateUpscaler(t)
    \/ EnsureCheck(t)
    \/ Download(t)
    \/ Extract(t)
    \/ Move(t)
    \/ Chmod(t)
    \/ UnlinkZip(t)
    \/ Constructed(t)

\* ------------------------------------------------------------ upscale call
\* The caller's arguments.  upscale_image is handed the image as an array;
\* upscale is handed an input path, which may not exist, and an output path.
StartCall(t) ==
    /\ pc[t] = "ready"
    /\ via[t] = "direct"
    /\ \E mode \in host.modes, scale \in host.scales, model \in host.models,
          h \in host.sides, w \in host.sides, src \in BOOLEAN, sink \in host.sinks :
        /\ mode = "array" => src
        /\ req' = [req EXCEPT ![t] = [mode |-> mode, scale |-> scale, model |-> model,
                                      image |-> Image(h, w), src |-> src,
                                      sink |-> sink]]
        /\ files' = [files EXCEPT ![t] =
                        IF mode = "file" /\ src
                        THEN [NoFiles EXCEPT !["in"] = Image(h, w)]
                        ELSE NoFiles]
        /\ Goto(t, IF mode = "array" THEN "mkin" ELSE "validate")
    /\ UNCHANGED <<host, platform, archive, install, upscaler, via, made, child,
                   calls, err, result, diag, reports, front>>

\* Where an exception raised inside upscale goes: to the finally clause of
\* upscale_image, or out of upscale to its caller.
Handler(t) == IF req[t].mode = "array" THEN "finally" ELSE "returned"

\* The first NamedTemporaryFile(suffix=".png", delete=False): it is outside
\* the try statement.
MkInput(t) ==
    /\ pc[t] = "mkin"
    /\ \E ok \in BOOLEAN :
        IF ok
        THEN /\ files' = [files EXCEPT ![t]["in"] = Empty]
             /\ made' = [made EXCEPT ![t] = @ \cup {"in"}]
             /\ Goto(t, "mkout")
             /\ UNCHANGED err
        ELSE Raise(t, "OSError: tempfile", "returned") /\ UNCHANGED <<files, made>>
    /\ UNCHANGED <<host, platform, archive, install, upscaler, via, req, child,
                   calls, result, diag, reports, front>>

\* The second NamedTemporaryFile, outside the try statement too.
MkOutput(t) ==
    /\ pc[t] = "mkout"
    /\ \E ok \in BOOLEAN :
        IF ok
        THEN /\ files' = [files EXCEPT ![t]["out"] = Empty]
             /\ made' = [made EXCEPT ![t] = @ \cup {"out"}]
             /\ Goto(t, "save")
             /\ UNCHANGED err
        ELSE Raise(t, "OSError: tempfile", "returned") /\ UNCHANGED <<files, made>>
    /\ UNCHANGED <<host, platform, archive, install, upscaler, via, req, child,
                   calls, result, diag, reports, front>>

\* Image.fromarray(image).save(input_path): a failed save may leave a part.
SaveInput(t) ==
    /\ pc[t] = "save"
    /\ \/ /\ files' = [files EXCEPT ![t]["in"] = req[t].image]
          /\ Goto(t, "validate")
          /\ UNCHANGED err
       \/ /\ \E c \in {Empty, Partial} : files' = [files EXCEPT ![t]["in"] = c]
          /\ Raise(t, "OSError: save", "finally")
    /\ UNCHANGED <<host, platform, archive, install, upscaler, via, req, made,
                   child, calls, result, diag, reports, front>>

\* The three checks at the head of upscale, in the order of the code.
\* (A slip: the test of the input path left out.)
CheckWithoutInputTest(t) ==
    IF ~ModelRegistered(req[t].model) THEN "ValueError: model"
    ELSE IF req[t].scale \notin SupportedScales THEN "ValueError: scale"
    ELSE "ok"
Check(t) ==
    IF files[t]["in"].k = "absent" THEN "FileNotFoundError: input"
    ELSE IF ~ModelRegistered(req[t].model) THEN "ValueError: model"
    ELSE IF req[t].scale \notin SupportedScales THEN "ValueError: scale"
    ELSE "ok"

Validate(t) ==
    /\ pc[t] = "validate"
    /\ IF Check(t) = "ok"
       THEN Goto(t, "spawn") /\ UNCHANGED err
       ELSE Raise(t, Check(t), Handler(t))
    /\ UNCHANGED <<host, platform, archive, install, upscaler, via, call, front>>

\* The pass that is next or running, and its files: the first pass reads the
\* input, the last writes the output, and output_path + ".temp.png" is between.
Plan(t) == PassPlan(req[t].scale)
\* (A slip: the second pass handed the input of the first.)
PassInAlwaysInput(t, i) == "in"
PassIn(t, i) == IF i = 1 THEN "in" ELSE "tmp"
PassOut(t, i) == IF i = Len(Plan(t)) THEN "out" ELSE "tmp"

\* The fraction upscale reports before pass i of n, in 1/1000: 0.1 before the
\* first pass (of one or of two), 0.5 before the second.
\* (A slip: the share of the plan that is done, (i-1)/n.)
PassProgressShareDone(i, n) == ((i - 1) * 1000) \div n
PassProgress(i, n) == IF i = 1 THEN 100 ELSE 500

\* update_progress of the UI request: progress(0.05 + p * 0.85), in 1/1000.
\* (A slip: the offset added to the whole of p.)
UiProgressUnscaled(p) == 50 + p
UiProgress(p) == 50 + (850 * p) \div 1000

\* `if progress_callback: progress_callback(p, ...)`; the callback of a UI
\* request hands the fraction on to the sink of the UI.
Report(t, p) ==
    /\ reports' = [reports EXCEPT ![t] = IF req[t].sink THEN Append(@, p) ELSE @]
    /\ ui' = [ui EXCEPT ![t].sink = IF via[t] = "app" THEN Append(@, UiProgress(p)) ELSE @]

\* A child process exits in the end ("running") or never does ("hung").
Children == {"running", "hung"}

\* _run_upscale up to the start of the child: subprocess.run raises when the
\* binary is missing or has no executable bit.
Spawn(t) ==
    /\ pc[t] = "spawn"
    /\ LET i == Len(calls[t]) + 1 IN
        /\ calls' = [calls EXCEPT ![t] =
                        Append(@, [i |-> PassIn(t, i), o |-> PassOut(t, i),
                                   n |-> req[t].model, s |-> Plan(t)[i], bin |-> bin,
                                   rc |-> IF bin = "exec" THEN "running" ELSE "nospawn"])]
        /\ CASE bin = "exec" ->
                    /\ \E c \in Children : child' = [child EXCEPT ![t] = c]
                    /\ Goto(t, "wait")
                    /\ UNCHANGED err
             [] bin = "noexec" ->
                    /\ Raise(t, "PermissionError: binary", Handler(t))
                    /\ UNCHANGED child
             [] OTHER ->
                    /\ Raise(t, "FileNotFoundError: binary", Handler(t))
                    /\ UNCHANGED child
        /\ Report(t, PassProgress(i, Len(Plan(t))))
    /\ UNCHANGED <<host, platform, archive, install, upscaler, via, req, files,
                   made, result, diag, http>>

\* `result.stderr or result.stdout or "Unknown error"`: the text that
\* RuntimeError(f"Upscaling failed: {error_msg}") carries.
\* (A slip: standard output taken first.)
ErrorMsgStdoutFirst(stderr, stdout) ==
    IF stdout # "" THEN stdout ELSE IF stderr # "" THEN stderr ELSE "Unknown error"
ErrorMsg(stderr, stdout) ==
    IF stderr # "" THEN stderr ELSE IF stdout # "" THEN stdout ELSE "Unknown error"

\* What a child that fails or is killed leaves at its output path.
Leftover(c) == {c, Partial}

\* The child exits.  Status 0: the output is written, and upscale goes on to
\* the next pass, to the unlink of the intermediate file, or returns.  Any
\* other status: RuntimeError("Upscaling failed: ...").
Exit(t) ==
    /\ pc[t] = "wait"
    /\ child[t] = "running"
    /\ child' = [child EXCEPT ![t] = "none"]
    /\ LET i == Len(calls[t])
           in == files[t][PassIn(t, i)]
           o == PassOut(t, i)
       IN \/ /\ IsImage(in)
             /\ files' = [files EXCEPT ![t][o] = ToolOutput(in, Plan(t)[i])]
             /\ calls' = [calls EXCEPT ![t][i].rc = "zero"]
             /\ Goto(t, IF i < Len(Plan(t)) THEN "spawn"
                        ELSE IF i > 1 THEN "cleantmp" ELSE "upscaled")
             /\ UNCHANGED <<err, diag>>
          \/ /\ \E c \in Leftover(files[t][o]) : files' = [files EXCEPT ![t][o] = c]
             /\ calls' = [calls EXCEPT ![t][i].rc = "nonzero"]
             /\ \E e \in host.stderrs, u \in host.stdouts :
                    diag' = [diag EXCEPT ![t] =
                                [stderr |-> e, stdout |-> u,
                                 msg |-> <<"Upscaling failed: ", ErrorMsg(e, u)>>]]
             /\ Raise(t, "RuntimeError: Upscaling failed", Handler(t))
    /\ UNCHANGED <<host, platform, archive, install, upscaler, via, req, made,
                   result, reports, front>>

\* `if os.path.exists(temp_path): os.unlink(temp_path)`, after the second pass.
CleanTmp(t) ==
    /\ pc[t] = "cleantmp"
    /\ files' = [files EXCEPT ![t]["tmp"] = NoFile]
    /\ Goto(t, "upscaled")
    /\ UNCHANGED <<host, platform, archive, install, upscaler, via, req, made,
                   child, calls, err, result, diag, reports, front>>

\* progress_callback(1.0, "Complete!"), and upscale returns output_path: to
\* its caller, or to upscale_image.
Upscaled(t) ==
    /\ pc[t] = "upscaled"
    /\ IF req[t].mode = "file"
       THEN result' = [result EXCEPT ![t] = OutputPath] /\ Goto(t, "returned")
       ELSE UNCHANGED result /\ Goto(t, "readback")
    /\ Report(t, 1000)
    /\ UNCHANGED <<host, platform, archive, install, upscaler, via, req, files,
                   made, child, calls, err, diag, http>>

\* Image.open(output_path) and np.array: the result, or an exception.
ReadBack(t) ==
    /\ pc[t] = "readback"
    /\ \/ /\ IsImage(files[t]["out"])
          /\ result' = [result EXCEPT ![t] = files[t]["out"]]
          /\ Goto(t, "finally")
          /\ UNCHANGED err
       \/ /\ Raise(t, "OSError: open", "finally")
          /\ UNCHANGED result
    /\ UNCHANGED <<host, platform, archive, install, upscaler, via, req, files,
                   made, child, calls, diag, reports, front>>

\* The finally clause of upscale_image.
Finally(t) ==
    /\ pc[t] = "finally"
    /\ files' = [files EXCEPT ![t] =
                    [p \in Paths |-> IF p \in CleanupPaths THEN NoFile ELSE @[p]]]
    /\ Goto(t, "returned")
    /\ UNCHANGED <<host, platform, archive, install, upscaler, via, req, made,
                   child, calls, err, result, diag, reports, front>>

\* The positions of a call inside upscale, where a cancellation reaches it:
\* before a pass, during a pass, between and after the passes.
Cancellable == {"validate", "spawn", "wait", "cleantmp", "upscaled"}

\* The request is cancelled: an exception raised asynchronously in the thread
\* of the call.  subprocess.run kills its child on any exception; upscale
\* catches subprocess.TimeoutExpired only, so the exception leaves it.
Cancel(t) ==
    /\ pc[t] \in Cancellable
    /\ child' = [child EXCEPT ![t] = "none"]
    /\ IF child[t] # "none"
       THEN LET o == PassOut(t, Len(calls[t])) IN
            /\ \E c \in Leftover(files[t][o]) : files' = [files EXCEPT ![t][o] = c]
            /\ calls' = [calls EXCEPT ![t][Len(calls[t])].rc = "killed"]
       ELSE UNCHANGED <<files, calls>>
    /\ Raise(t, "Cancelled", Handler(t))
    /\ UNCHANGED <<host, platform, archive, install, upscaler, via, req, made,
                   result, diag, reports, front>>

\* The thread is done with its call, or with a failed construction, and is
\* free for the next one; temporary names are never reused.
NextCall(t) ==
    /\ \/ pc[t] = "responded"
       \/ pc[t] \in {"returned", "failed"} /\ via[t] = "direct"
       \/ pc[t] = "returned" /\ via[t] = "app" /\ err[t] = "Cancelled"
    /\ Goto(t, "idle")
    /\ via' = [via EXCEPT ![t] = "none"]
    /\ req' = [req EXCEPT ![t] = NoReq]
    /\ files' = [files EXCEPT ![t] = NoFiles]
    /\ made' = [made EXCEPT ![t] = {}]
    /\ calls' = [calls EXCEPT ![t] = <<>>]
    /\ err' = [err EXCEPT ![t] = "none"]
    /\ result' = [result EXCEPT ![t] = NoResult]
    /\ diag' = [diag EXCEPT ![t] = NoDiag]
    /\ reports' = [reports EXCEPT ![t] = <<>>]
    /\ ui' = [ui EXCEPT ![t] = NoUi]
    /\ http' = [http EXCEPT ![t] = NoHttp]
    /\ UNCHANGED <<host, platform, archive, install, upscaler, child>>

Request(t) ==
    \/ StartCall(t)
    \/ MkInput(t)
    \/ MkOutput(t)
    \/ SaveInput(t)
    \/ Validate(t)
    \/ Spawn(t)
    \/ Exit(t)
    \/ CleanTmp(t)
    \/ Upscaled(t)
    \/ ReadBack(t)
    \/ Finally(t)
    \/ Cancel(t)
    \/ NextCall(t)

\* ------------------------------------------------------------- UI request
\* app.upscale_image up to get_upscaler: without an image it answers at once.
UiRequest(t) ==
    /\ t \in host.threads
    /\ pc[t] = "idle"
    /\ via' = [via EXCEPT ![t] = "app"]
    /\ \E given \in host.inputs :
        IF given
        THEN /\ ui' = [ui EXCEPT ![t].sink = Append(@, 50)]
             /\ Goto(t, "get")
        ELSE /\ ui' = [ui EXCEPT ![t].resp =
                        [image |-> NoResult, path |-> "none",
                         status |-> <<"Upload an image to get started">>]]
             /\ Goto(t, "responded")
    /\ UNCHANGED <<host, platform, archive, install, upscaler, call, err, http>>

\* From get_upscaler's return to the call of upscaler.upscale_image: the scale
\* is parsed, the model is looked up, the image is handed over as an array
\* and update_progress as the callback.
UiCall(t) ==
    /\ pc[t] = "ready"
    /\ via[t] = "app"
    /\ \E f \in host.factors, c \in host.choices, h \in host.sides, w \in host.sides :
        IF IsInt(Replaced(f))
        THEN /\ req' = [req EXCEPT ![t] =
                         [mode |-> "array", scale |-> ParseScale(f),
                          model |-> ModelName(c), image |-> Image(h, w),
                          src |-> TRUE, sink |-> TRUE]]
             /\ Goto(t, "mkin")
             /\ UNCHANGED err
        ELSE /\ Raise(t, "ValueError: invalid literal for int()", "failed")
             /\ UNCHANGED req
    /\ UNCHANGED <<host, platform, archive, install, upscaler, via, files, made,
                   child, calls, result, diag, reports, front>>

\* progress(0.95) and save_image_to_file: Image.save opens the file and
\* writes it, and either step can fail.
SaveOutcomes == {"saved", "unopened", "unwritten"}

UiSave(t) ==
    /\ pc[t] = "returned"
    /\ via[t] = "app"
    /\ err[t] = "none"
    /\ \E f \in host.formats, o \in SaveOutcomes :
        /\ ui' = [ui EXCEPT ![t].sink = Append(@, 950),
                            ![t].wrote = IF o = "unopened" THEN @ ELSE SavePath(f)]
        /\ IF o = "saved"
           THEN Goto(t, "saved") /\ UNCHANGED err
           ELSE Raise(t, "OSError: save result", "failed")
    /\ UNCHANGED <<host, platform, archive, install, upscaler, via, call, http>>

\* progress(1.0), the status line and the return.
DoneStatus(r) ==
    <<"Done! ", r.image.w, r.image.h, r.image.w * r.scale, r.image.h * r.scale, r.scale>>

UiDone(t) ==
    /\ pc[t] = "saved"
    /\ ui' = [ui EXCEPT ![t].sink = Append(@, 1000),
                        ![t].resp = [image |-> result[t], path |-> ui[t].wrote,
                                     status |-> DoneStatus(req[t])]]
    /\ Goto(t, "responded")
    /\ UNCHANGED <<host, platform, archive, install, upscaler, via, call, err, http>>

\* str(e) of the exception the try statement caught.
Message(t) ==
    IF err[t] = "RuntimeError: Upscaling failed" THEN diag[t].msg ELSE <<err[t]>>

\* `except Exception as e: return None, None, f"Error: {str(e)}"`.
ErrorResponseKeepsPath(t) ==
    [image |-> NoResult, path |-> ui[t].wrote, status |-> <<"Error: ">> \o Message(t)]

ErrorResponse(t) ==
    [image |-> NoResult, path |-> "none", status |-> <<"Error: ">> \o Message(t)]

\* An exception of class Exception left the try statement; a cancellation
\* is not one and leaves upscale_image.
UiError(t) ==
    /\ via[t] = "app"
    /\ \/ pc[t] = "failed"
       \/ pc[t] = "returned" /\ err[t] \notin {"none", "Cancelled"}
    /\ ui' = [ui EXCEPT ![t].resp = ErrorResponse(t)]
    /\ Goto(t, "responded")
    /\ UNCHANGED <<host, platform, archive, install, upscaler, via, call, err, http>>

Ui(t) ==
    \/ UiRequest(t)
    \/ UiCall(t)
    \/ UiSave(t)
    \/ UiDone(t)
    \/ UiError(t)

\* ----------------------------------------------------------- HTTP request
\* An exception raised in the try statement of the /upscale handler; one that
\* is not an HTTPException has no status (0).
HTTPException(status, detail) == [status |-> status, cause |-> detail]

\* `except Exception as e: raise HTTPException(status_code=500, detail=str(e))`:
\* HTTPException is an Exception, so one raised inside the try is caught too.
Caught(e) == HTTPException(500, e.cause)

\* The /upscale handler, from storing the upload to cv2.imread.
HttpReceive(t) ==
    /\ t \in host.threads
    /\ pc[t] = "idle"
    /\ via' = [via EXCEPT ![t] = "http"]
    /\ \E stored \in BOOLEAN, decoded \in host.uploads :
        IF ~stored
        THEN /\ http' = [http EXCEPT ![t] = Caught(HTTPException(0, "OSError: upload"))]
             /\ Goto(t, "responded")
        ELSE IF ~decoded
        THEN /\ http' = [http EXCEPT ![t] =
                            Caught(HTTPException(400, "Invalid image format"))]
             /\ Goto(t, "responded")
        ELSE /\ Goto(t, "httpcall")
             /\ UNCHANGED http
    /\ UNCHANGED <<host, platform, archive, install, upscaler, call, err, ui>>

\* upscaler.upscale(img_rgb, 4, model, format) and the answer.
HttpCall(t) ==
    /\ pc[t] = "httpcall"
    /\ \E o \in host.backends :
        http' = [http EXCEPT ![t] =
                    CASE o = "path" -> [status |-> 200, cause |-> "none"]
                      [] o = "nopath" -> Caught(HTTPException(500, "Upscaling failed"))
                      [] OTHER -> Caught(HTTPException(0, o))]
    /\ Goto(t, "responded")
    /\ UNCHANGED <<host, platform, archive, install, upscaler, via, call, err, ui>>

Http(t) ==
    \/ HttpReceive(t)
    \/ HttpCall(t)

Next == \E t \in Threads : Provision(t) \/ Request(t) \/ Ui(t) \/ Http(t)

Spec == Init /\ [][Next]_vars
SpecConc == InitConc /\ [][Next]_vars
\* ------------------------------------------------------------------ claims
Called(t) == req[t].mode # "none"
ArrayCall(t) == req[t].mode = "array"
Returned(t) == pc[t] = "returned"
Succeeded(t) == Returned(t) /\ err[t] = "none"
NoneLeft(t) == \A p \in Paths : files[t][p] = NoFile
PassScales(t) == [i \in 1..Len(calls[t]) |-> calls[t][i].s]
IsPrefix(s, q) == Len(s) <= Len(q) /\ \A i \in 1..Len(s) : s[i] = q[i]

RECURSIVE Product(_)
Product(s) == IF s = <<>> THEN 1 ELSE Head(s) * Product(Tail(s))

\* The positions of a call at or between its passes.
InPasses == {"spawn", "wait", "cleantmp", "upscaled", "readback"}

\* The failures of the stages of upscale_image: the save of the input, a pass.
StageFailures == {"OSError: save", "RuntimeError: Upscaling failed"}

\* C1: once upscale_image has returned with an error raised while staging the
\* input, in pass 1 or in pass 2, none of the call's files exists any more:
\* not the staged input, not the staged output, not output_path + ".temp.png".
C1_NoFileSurvivesFailure ==
    \A t \in Threads :
        (ArrayCall(t) /\ Returned(t) /\ err[t] \in StageFailures) => NoneLeft(t)

\* C2: upscale_image takes exactly two temporary files, the staged input and
\* the staged output, and whether it returns normally or with an exception
\* raised while saving, upscaling or reading back, both are deleted when it
\* returns.
C2_BothTemporaryFilesDeleted ==
    \A t \in Threads :
        (ArrayCall(t) /\ Returned(t) /\ err[t] # "OSError: tempfile") =>
            /\ made[t] = {"in", "out"}
            /\ files[t]["in"] = NoFile
            /\ files[t]["out"] = NoFile

C2_Witness ==
    \E t \in Threads :
        /\ ArrayCall(t) /\ Returned(t)
        /\ err[t] = "RuntimeError: Upscaling failed"
        /\ Len(calls[t]) = 1
        /\ made[t] = {"in", "out"}
        /\ files[t]["out"] = NoFile

\* C3: a call with scale 8 and a registered model invokes the external tool
\* at 4 and then at 2, never otherwise and never more; when it returns with
\* both passes done, there were exactly these two invocations and the
\* intermediate file of the first pass no longer exists.
C3_EightIsFourThenTwo ==
    \A t \in Threads :
        (Called(t) /\ req[t].scale = 8 /\ req[t].model \in MODELS) =>
            /\ IsPrefix(PassScales(t), <<4, 2>>)
            /\ Succeeded(t) =>
                /\ PassScales(t) = <<4, 2>>
                /\ calls[t][2].i = calls[t][1].o
                /\ files[t]["tmp"] = NoFile

C3_Witness ==
    \E t \in Threads :
        /\ Succeeded(t) /\ ArrayCall(t)
        /\ req[t].scale = 8
        /\ PassScales(t) = <<4, 2>>
        /\ files[t]["tmp"] = NoFile

\* C4: for every scale S in {2, 4, 8} and every registered model, the per-pass
\* scales of a successful call are 4s and 2s whose product is S, and the image
\* it returns (upscale_image) or leaves at the output path (upscale) is S times
\* as high and S times as wide as the input.
C4_OutputIsScaleTimesInput ==
    \A t \in Threads :
        (Succeeded(t) /\ req[t].scale \in {2, 4, 8} /\ req[t].model \in MODELS) =>
            /\ \A i \in 1..Len(calls[t]) : calls[t][i].s \in {4, 2}
            /\ Product(PassScales(t)) = req[t].scale
            /\ LET out == IF ArrayCall(t) THEN result[t] ELSE files[t]["out"] IN
                out = Image(req[t].image.h * req[t].scale, req[t].image.w * req[t].scale)

C4_Witness ==
    \E t \in Threads :
        /\ Succeeded(t) /\ ArrayCall(t)
        /\ req[t].scale = 8
        /\ req[t].image = Image(1, 2)
        /\ result[t] = Image(8, 16)

\* C5, as claimed: a call of upscale_image with a model that is not in the
\* registry fails before any staging (no temporary file created or written)
\* and before any invocation of the external tool.
C5_UnknownModelFailsBeforeStaging ==
    \A t \in Threads :
        (ArrayCall(t) /\ err[t] = "ValueError: model") =>
            made[t] = {} /\ calls[t] = <<>>

\* C5, amended: a call with a model that is not in the registry never reaches
\* a pass: it invokes the external tool zero times and returns with an error
\* and no result.  upscale_image stages before upscale checks the model, and
\* the two temporary files it took are deleted when it returns.
C5_UnknownModelFailsBeforeInvocation ==
    \A t \in Threads :
        (Called(t) /\ ~req[t].model \in MODELS) =>
            /\ calls[t] = <<>>
            /\ child[t] = "none"
            /\ pc[t] \notin InPasses
            /\ Returned(t) => err[t] # "none" /\ result[t] = NoResult
            /\ (Returned(t) /\ ArrayCall(t) /\ err[t] = "ValueError: model") =>
                    made[t] = {"in", "out"} /\ NoneLeft(t)

C5_Witness ==
    \E t \in Threads :
        /\ ArrayCall(t) /\ Returned(t)
        /\ err[t] = "ValueError: model"
        /\ made[t] = {"in", "out"}
        /\ NoneLeft(t)
        /\ calls[t] = <<>>

\* C6: a call of upscale_image or upscale with a scale outside {2, 4, 8}
\* invokes the external tool zero times and fails; the error is the scale
\* error unless an earlier step of the call has failed (staging, the
\* existence of the input, the model check, a cancellation).
C6_UnsupportedScaleNeverInvokes ==
    \A t \in Threads :
        (Called(t) /\ req[t].scale \notin {2, 4, 8}) =>
            /\ calls[t] = <<>>
            /\ child[t] = "none"
            /\ pc[t] \notin InPasses
            /\ Returned(t) =>
                /\ result[t] = NoResult
                /\ \/ err[t] = "ValueError: scale"
                   \/ err[t] = "ValueError: model" /\ ~req[t].model \in MODELS
                   \/ err[t] = "FileNotFoundError: input" /\ ~req[t].src
                   \/ err[t] \in {"OSError: tempfile", "OSError: save", "Cancelled"}

C6_Witness ==
    \E t \in Threads :
        /\ ArrayCall(t) /\ Returned(t)
        /\ req[t].scale = 3
        /\ err[t] = "ValueError: scale"
        /\ calls[t] = <<>>
\* C7: a cancelled call runs the cleanup of a failed one: when it has
\* returned, whether it was cancelled before pass 1, during pass 1, between
\* the passes or during pass 2, its child is terminated, no staged or
\* intermediate file of the call remains, and no partially written file is at
\* the output path the caller gave.
C7_CancelledCallLeavesNothing ==
    \A t \in Threads :
        (Returned(t) /\ err[t] = "Cancelled") =>
            /\ child[t] = "none"
            /\ files[t]["tmp"] = NoFile
            /\ ArrayCall(t) => NoneLeft(t)
            /\ files[t]["out"] # Partial

\* The threads that have fetched the archive, and those that have unpacked
\* it, and have not yet left _ensure_binary_exists.
Fetched == {t \in Threads : pc[t] \in {"extract", "move", "move2", "chmod", "unlinkzip"}}
Extracted == {t \in Threads : pc[t] \in {"move", "move2", "chmod", "unlinkzip"}}

\* C8: under any interleaving of concurrent first calls of the provisioner
\* (concurrent constructions, concurrent first calls of get_upscaler), at most
\* one download and at most one extraction of the archive take place.
C8_SingleDownloadAndExtract ==
    Cardinality(Fetched) <= 1 /\ Cardinality(Extracted) <= 1

\* C9: whenever the external tool is invoked, the binary exists at the
\* installation path and has its executable bit set, also for a call that
\* found the binary present while another thread's provisioning was between
\* putting it in place and chmod.
C9_BinaryExecutableWhenInvoked ==
    \A t \in Threads : \A i \in 1..Len(calls[t]) : calls[t][i].bin = "exec"

\* C10: when the archive is fetched and unpacked and the expected binary is
\* not at the installation path, provisioning fails with an error: it does
\* not complete normally.
C10_MissingBinaryFailsProvisioning ==
    \A t \in Threads : pc[t] = "constructed" => bin # "absent"

\* C11: provisioning is idempotent: a call of _ensure_binary_exists that finds
\* the binary at its path returns at once, with no fetch, no extraction and
\* no write in the installation directory; so of two calls in sequence the
\* second, finding the binary the first installed, fetches nothing.
C11_PresentBinaryMeansNoInstall ==
    [][\A t \in Threads :
          (pc[t] = "check" /\ bin # "absent" /\ pc'[t] # "check") =>
              /\ pc'[t] = "constructed"
              /\ UNCHANGED <<bin, zip, xdir>>
              /\ err'[t] = "none"]_vars

\* With an archive that holds no binary, a binary at the path no install put
\* there: the constructor is past the early return.
C11_Witness ==
    \E t \in Threads :
        /\ pc[t] = "constructed"
        /\ archive = "nobin"
        /\ bin = "exec"
        /\ ~zip

\* C12: every invocation of the external tool runs under a bounded timeout:
\* a call that waits for a child that never exits is not held for ever, its
\* wait ends (with a timed-out error, which is not the error of a non-zero
\* exit status) and the call returns.
C12_WaitOnHungChildEnds ==
    \A t \in Threads : (pc[t] = "wait" /\ child[t] = "hung") => ENABLED Exit(t)

\* C13: when an invocation of the external tool exits with a non-zero status,
\* the call fails with the invocation-failed error, whose message holds the
\* captured standard error when that is not empty, and the captured standard
\* output when standard error is empty.
C13_FailureCarriesDiagnostics ==
    \A t \in Threads :
        /\ (\E i \in 1..Len(calls[t]) : calls[t][i].rc = "nonzero") =>
                err[t] = "RuntimeError: Upscaling failed"
        /\ err[t] = "RuntimeError: Upscaling failed" =>
                /\ diag[t].msg[1] = "Upscaling failed: "
                /\ diag[t].stderr # "" => diag[t].msg[2] = diag[t].stderr
                /\ (diag[t].stderr = "" /\ diag[t].stdout # "") =>
                        diag[t].msg[2] = diag[t].stdout

C13_Witness ==
    \E t \in Threads :
        /\ Returned(t)
        /\ err[t] = "RuntimeError: Upscaling failed"
        /\ diag[t].stderr = "CUDA error"
        /\ diag[t].stdout = "0.00%"
        /\ diag[t].msg = <<"Upscaling failed: ", "CUDA error">>

\* C15: within one call the passes run in the order of the plan and never
\* overlap: a pass is started only when the pass before it has exited with
\* status 0, it reads the file that pass wrote, and after a pass that failed
\* no further pass is started.
C15_PassesInOrderWithoutOverlap ==
    \A t \in Threads :
        /\ Called(t) => IsPrefix(PassScales(t), PassPlan(req[t].scale))
        /\ \A i \in 2..Len(calls[t]) :
                /\ calls[t][i - 1].rc = "zero"
                /\ calls[t][i].i = calls[t][i - 1].o
        /\ \A i \in 1..Len(calls[t]) :
                calls[t][i].rc = "running" => (i = Len(calls[t]) /\ child[t] # "none")

C15_Witness ==
    \E t \in Threads :
        /\ Len(calls[t]) = 2
        /\ calls[t][1].rc = "zero"
        /\ calls[t][2].rc = "running"
        /\ calls[t][2].i = "tmp"
        /\ child[t] = "running"

\* The fractions a call of the given scale reports in all.
Reported(scale) == IF scale = 8 THEN <<100, 500, 1000>> ELSE <<100, 1000>>

\* C16, as claimed: the progress a call with n passes reports to the sink of
\* its caller is (i-1)/n immediately before pass i (0 before the first pass,
\* 1/2 before the second pass of an 8x request) and 1.0 after the last pass.
C16_ProgressIsShareOfPassesDone ==
    \A t \in Threads :
        LET n == Len(PassPlan(req[t].scale)) IN
        \A k \in 1..Len(reports[t]) :
            reports[t][k] = IF k <= n THEN ((k - 1) * 1000) \div n ELSE 1000

\* C16, amended: the progress a call reports to the sink of its caller is 0.1
\* immediately before the first pass, 0.5 before the second pass of an 8x
\* request, and 1.0 after the last pass; a call without a sink reports nothing.
C16_ProgressIsTenthHalfOne ==
    \A t \in Threads :
        /\ (Called(t) /\ req[t].sink) =>
            /\ IsPrefix(reports[t], Reported(req[t].scale))
            /\ Len(reports[t]) >= Len(calls[t])
            /\ Len(reports[t]) <= Len(calls[t]) + 1
            /\ (Succeeded(t) \/ pc[t] = "readback") => reports[t] = Reported(req[t].scale)
        /\ ~req[t].sink => reports[t] = <<>>

C16_Witness ==
    \E t \in Threads :
        /\ Succeeded(t)
        /\ req[t].scale = 8
        /\ reports[t] = <<100, 500, 1000>>

\* C19: a call of upscale with an input path that does not exist fails with
\* the source-not-found error; it invokes the external tool zero times and
\* creates no file at the output path or at the intermediate path.
C19_MissingInputFailsFirst ==
    \A t \in Threads :
        (req[t].mode = "file" /\ ~req[t].src) =>
            /\ calls[t] = <<>>
            /\ child[t] = "none"
            /\ NoneLeft(t)
            /\ pc[t] \in {"validate", "returned"}
            /\ Returned(t) =>
                /\ result[t] = NoResult
                /\ err[t] \in {"FileNotFoundError: input", "Cancelled"}

C19_Witness ==
    \E t \in Threads :
        /\ req[t].mode = "file" /\ ~req[t].src
        /\ req[t].scale = 8 /\ req[t].model \in MODELS
        /\ Returned(t)
        /\ err[t] = "FileNotFoundError: input"
        /\ NoneLeft(t)
\* The files a request has written so far: the temporary files it made,
\* which are named by the request, and the saved result, which is named by
\* its extension alone.
Written(t) ==
    {<<"tmp", t, p>> : p \in made[t] \cup {q \in Paths : files[t][q] # NoFile}}
        \cup (IF ui[t].wrote = "none" THEN {} ELSE {<<"upscaled_image", 0, ui[t].wrote>>})

\* A request is running from its first step to its response.
Running(t) == pc[t] \notin {"idle", "responded"}

\* C14: temporary files are never shared between requests: for two requests
\* running concurrently, no file path written by one (staged input, staged
\* output, intermediate pass file, saved result file) is written by the other.
C14_NoSharedTemporaryFile ==
    \A s \in Threads : \A t \in Threads \ {s} :
        Running(s) /\ Running(t) => Written(s) \cap Written(t) = {}

\* The UI requests that have answered.
Responded == {t \in Threads : via[t] = "app" /\ pc[t] = "responded"}

\* C18: a UI request in which a failure was raised (creating the upscaler,
\* parsing the scale, staging, a pass, saving the result) answers with no
\* image, no save path and a status that is "Error: " followed by the message
\* of the cause; an image or a save path comes only with a success status.
C18_FailureAnswersErrorOnly ==
    \A t \in Responded :
        LET r == ui[t].resp IN
        /\ err[t] # "none" =>
                /\ r.image = NoResult
                /\ r.path = "none"
                /\ Head(r.status) = "Error: "
                /\ Tail(r.status) = Message(t)
        /\ (r.image # NoResult \/ r.path # "none") =>
                /\ err[t] = "none"
                /\ Head(r.status) = "Done! "

\* A request whose save failed after the result file was opened has answered.
C18_Witness ==
    \E t \in Responded : err[t] = "OSError: save result" /\ ui[t].wrote # "none"

\* C20: over one UI request the fractions delivered to the UI progress sink
\* (0.05 at the start, 0.05 + 0.85 * p for a report p of upscale, 0.95 before
\* the save, 1.0 when done; in 1/1000) start at 0.05, never decrease and stay
\* within [0, 1], and 1.0 is delivered only if every pass and the save
\* succeeded.
C20_UiProgressMonotoneAndBounded ==
    \A t \in Threads :
        LET s == ui[t].sink IN
        /\ s # <<>> => Head(s) = 50
        /\ \A i \in 1..Len(s) : s[i] \in 0..1000
        /\ \A i \in 1..(Len(s) - 1) : s[i] <= s[i + 1]
        /\ (\E i \in 1..Len(s) : s[i] = 1000) =>
                /\ err[t] = "none"
                /\ Len(calls[t]) = Len(PassPlan(req[t].scale))
                /\ \A i \in 1..Len(calls[t]) : calls[t][i].rc = "zero"
                /\ IsImage(result[t])
                /\ ui[t].wrote # "none"

\* A UI request of two passes has delivered all six fractions.
C20_Witness ==
    \E t \in Threads :
        ui[t].sink = <<50, 135, 475, 900, 950, 1000>> /\ Len(calls[t]) = 2

\* The causes that are the caller's, and those that are the environment's
\* or the tool's.
CallerErrors == {"Invalid image format", "InvalidRequest", "SourceNotFound",
                 "UnsupportedScale"}
ServerErrors == {"OSError: upload", "Upscaling failed", "ProvisioningError",
                 "InvocationFailed", "InvocationTimedOut"}

\* C17: the HTTP upscale endpoint answers a caller error (an invalid or
\* undecodable upload, an invalid request, a missing source, an unsupported
\* scale) with a 4xx status, and answers 5xx only for an error of the
\* environment or of the tool.
C17_CallerErrorsAre4xx ==
    \A t \in Threads :
        via[t] = "http" /\ pc[t] = "responded" =>
            /\ http[t].cause \in CallerErrors => http[t].status \in 400..499
            /\ http[t].status \in 500..599 => http[t].cause \in ServerErrors

====
